---------------------------- MODULE Spec2Model ----------------------------
(***************************************************************************)
(* Model of the text-to-JSON converter (convert_book_to_json.py) and of    *)
(* the chunk-ingestion loop (script_construct.py).                         *)
(*                                                                         *)
(* Text is a sequence of one-character strings.  The regular expressions   *)
(* of the source are modelled by what they match, character by character. *)
(***************************************************************************)
EXTENDS Integers, Sequences, FiniteSets, TLC

VARIABLES
    pc,            \* the position of the running script
    text,          \* clean_text: the argument
    cleaned,       \* clean_text: the returned string
    content,       \* the text read from the input file
    stories,       \* extract_content_sections: the detected markers
    policy,        \* which detector produced stories: "none", "A" or "B"
    idx,           \* extract_content_sections: the loop variable i (0-based)
    sections,      \* the list of sections built so far / returned
    metadata,      \* create_book_metadata's result: <<>> or <<record>>
    book_json,     \* the structured document in memory: <<>> or <<record>>
    input_file,    \* the input file: [exists, utf8, data]
    output_file,   \* the output file: "absent", "previous", "empty", "partial", "complete"
    individual,    \* args.individual
    exc,           \* the exception being raised: "none" or its class
    raised_at,     \* where the exception was raised ("none" if none was)
    reported,      \* what main printed last: "none", "not_found", "error", "completed"
    section_files, \* the number of section_*.json files written
    all_chunks,    \* script_construct: the chunks to ingest
    chunk_i,       \* script_construct: the loop variable i (0-based)
    attempts,      \* the calls of rag.insert so far: [chunk, try, result]
    err,           \* the result of the failed rag.insert being handled
    aborted        \* the loop was left by break

cleanVars == <<text, cleaned>>
convertVars == <<content, stories, policy, idx, sections, metadata, book_json>>
mainVars == <<input_file, output_file, individual, exc, raised_at, reported,
              section_files>>
ingestVars == <<all_chunks, chunk_i, attempts, err, aborted>>
vars == <<pc, cleanVars, convertVars, mainVars, ingestVars>>

----------------------------------------------------------------------------
(* Character classes of Python's re on str.                                *)

Upper == {"A","B","C","D","E","F","G","H","I","J","K","L","M",
          "N","O","P","Q","R","S","T","U","V","W","X","Y","Z"}
Lower == {"a","b","c","d","e","f","g","h","i","j","k","l","m",
          "n","o","p","q","r","s","t","u","v","w","x","y","z"}
Digit == {"0","1","2","3","4","5","6","7","8","9"}
Space == {" ", "\n", "\t"}                            \* \s
WordChar == Upper \cup Lower \cup Digit \cup {"_"}    \* \w
Punct == {".", ",", "!", "?", ";", ":", "'", "\"", "(", ")", "-"}
Allowed == WordChar \cup Space \cup Punct            \* [\w\s.,!?;:'"()-]
OpenMark == "⟪"
CloseMark == "⟫"

----------------------------------------------------------------------------
(* String helpers: str.strip, str.split, str.join.                         *)

\* What re.sub(..., '', text) leaves of a removed character.
Dropped == ""

\* str.strip(): drop leading and trailing whitespace.
Strip(s) ==
    LET n == Len(s)
    IN  IF \A i \in 1..n : s[i] \in Space THEN <<>>
        ELSE LET lo == CHOOSE i \in 1..n :
                          s[i] \notin Space /\ \A j \in 1..(i - 1) : s[j] \in Space
                 hi == CHOOSE i \in 1..n :
                          s[i] \notin Space /\ \A j \in (i + 1)..n : s[j] \in Space
             IN  SubSeq(s, lo, hi)

\* len(s.split()): the number of maximal runs of non-whitespace characters.
WordCount(s) ==
    Cardinality({i \in 1..Len(s) :
                    s[i] \notin Space /\ (i = 1 \/ s[i-1] \in Space)})

----------------------------------------------------------------------------
(* clean_text, one re.sub per operator.                                    *)

\* re.sub(r'\s+', ' ', text.strip())
CollapseWhitespace(s) ==
    LET t == Strip(s)
    IN  SelectSeq([i \in 1..Len(t) |->
                      IF t[i] \notin Space THEN t[i]
                      ELSE IF i > 1 /\ t[i-1] \in Space THEN Dropped
                      ELSE " "],
                  LAMBDA c : c # Dropped)

\* The matches <<first, last>> of ⟪[^⟫]*⟫ in s at or after index from, as re.sub
\* finds them: leftmost first, each ending at the first closing mark, the next
\* one searched after it.
RECURSIVE MarkerMatches(_, _)
MarkerMatches(s, from) ==
    LET n == Len(s)
        opens == {o \in from..n : s[o] = OpenMark /\ \E c \in (o + 1)..n : s[c] = CloseMark}
    IN  IF opens = {} THEN {}
        ELSE LET o == CHOOSE x \in opens : \A y \in opens : x <= y
                 c == CHOOSE x \in (o + 1)..n :
                         s[x] = CloseMark /\ \A y \in (o + 1)..(x - 1) : s[y] # CloseMark
             IN  {<<o, c>>} \cup MarkerMatches(s, c + 1)

\* re.sub(r'⟪[^⟫]*⟫', '', text)
RemoveMarkers(s) ==
    LET ms == MarkerMatches(s, 1)
    IN  SelectSeq([i \in 1..Len(s) |->
                      IF \A m \in ms : i < m[1] \/ i > m[2] THEN s[i] ELSE Dropped],
                  LAMBDA c : c # Dropped)

\* re.sub(r'[^\w\s.,!?;:\'"()-]', '', text)
RemoveSpecials(s) == SelectSeq(s, LAMBDA c : c \in Allowed)

clean_text(s) == RemoveSpecials(RemoveMarkers(CollapseWhitespace(s)))

----------------------------------------------------------------------------
(* content.split('\n'), '\n'.join(lines) and the slice lines[a:b].         *)

Split(s) ==
    LET n == Len(s)
        \* the indices of the newlines, in order
        nl == SelectSeq([i \in 1..n |-> IF s[i] = "\n" THEN i ELSE 0],
                        LAMBDA i : i # 0)
        from(k) == IF k = 1 THEN 1 ELSE nl[k - 1] + 1
        to(k) == IF k > Len(nl) THEN n ELSE nl[k] - 1
    IN  [k \in 1..(Len(nl) + 1) |-> SubSeq(s, from(k), to(k))]

RECURSIVE JoinRange(_, _, _)
JoinRange(ls, lo, hi) ==
    IF lo > hi THEN <<>>
    ELSE IF lo = hi THEN ls[lo]
    ELSE LET mid == (lo + hi) \div 2
         IN  JoinRange(ls, lo, mid) \o <<"\n">> \o JoinRange(ls, mid + 1, hi)

Join(ls) == JoinRange(ls, 1, Len(ls))

\* Python's lines[a:b] for 0 <= a, 0 <= b: indices a .. b-1, clipped.
Slice(ls, a, b) ==
    LET hi == IF b < Len(ls) THEN b ELSE Len(ls)
    IN  IF a + 1 > hi THEN <<>> ELSE SubSeq(ls, a + 1, hi)

----------------------------------------------------------------------------
(* The heading patterns, on a stripped line t, as re.match applies them.   *)

IsPrefix(p, t) == Len(p) <= Len(t) /\ \A i \in 1..Len(p) : t[i] = p[i]

\* ^[A-Z][A-Z\s]+$
AllCaps(t) ==
    /\ Len(t) >= 2
    /\ t[1] \in Upper
    /\ \A i \in 2..Len(t) : t[i] \in Upper \cup Space

\* ^[A-Z][a-z\s]+:$
TitleColon(t) ==
    /\ Len(t) >= 3
    /\ t[1] \in Upper
    /\ t[Len(t)] = ":"
    /\ \A i \in 2..(Len(t) - 1) : t[i] \in Lower \cup Space

\* ^[A-Z][a-z\s]{m,}$
TitleCase(t, m) ==
    /\ Len(t) >= m + 1
    /\ t[1] \in Upper
    /\ \A i \in 2..Len(t) : t[i] \in Lower \cup Space

\* ^<word>\s+\d+
Numbered(word, t) ==
    /\ IsPrefix(word, t)
    /\ \E d \in (Len(word) + 2)..Len(t) :
          /\ t[d] \in Digit
          /\ \A i \in (Len(word) + 1)..(d - 1) : t[i] \in Space

ChapterWord == <<"C","h","a","p","t","e","r">>
PartWord == <<"P","a","r","t">>
SectionWord == <<"S","e","c","t","i","o","n">>
StoryWord == <<"S","t","o","r","y">>

StoryTitleMin == 15
SectionTitleMin == 10
MinTitleLen == 10
MinContentLines == 10
MinWords == 50

\* any(re.match(p, line) for p in story_indicators)
MatchesStoryIndicator(t) ==
    \/ TitleCase(t, StoryTitleMin)
    \/ Numbered(ChapterWord, t)
    \/ Numbered(PartWord, t)
    \/ Numbered(StoryWord, t)
    \/ AllCaps(t)

\* any(re.match(p, line) for p in section_patterns)
MatchesSectionPattern(t) ==
    \/ AllCaps(t)
    \/ TitleColon(t)
    \/ Numbered(ChapterWord, t)
    \/ Numbered(PartWord, t)
    \/ Numbered(SectionWord, t)
    \/ Numbered(StoryWord, t)
    \/ TitleCase(t, SectionTitleMin)

----------------------------------------------------------------------------
(* The two detectors.  i and content_start are 0-based as in the source;   *)
(* the line with 0-based index k is lines[k + 1] here.                     *)

IsBlank(l) == Strip(l) = <<>>

\* ContentStart without the loop over blank lines
ContentStart_NoSkip(lines, i) == i + 1

\* content_start = i + 1; while content_start < len(lines) and not
\* lines[content_start].strip(): content_start += 1
ContentStart(lines, i) ==
    LET stop == {c \in (i + 1)..Len(lines) :
                    c = Len(lines) \/ ~IsBlank(lines[c + 1])}
    IN  CHOOSE c \in stop : \A d \in stop : c <= d

Marker(lines, i) ==
    [title |-> Strip(lines[i + 1]),
     line |-> i + 1,
     start_content |-> ContentStart(lines, i) + 1]

\* HasSubstantialContent with <= in place of <
HasSubstantialContent_Inclusive(lines, i) ==
    ContentStart(lines, i) <= Len(lines) - MinContentLines

\* if content_start < len(lines) - 10
HasSubstantialContent(lines, i) ==
    ContentStart(lines, i) < Len(lines) - MinContentLines

IsStoryBoundary(lines, i) ==
    LET t == Strip(lines[i + 1])
    IN  /\ ~(t = <<>> \/ Len(t) < MinTitleLen)
        /\ MatchesStoryIndicator(t)
        /\ HasSubstantialContent(lines, i)

IsSectionHeader(lines, i) ==
    LET t == Strip(lines[i + 1])
    IN  /\ t # <<>>
        /\ MatchesSectionPattern(t)

\* The markers of the lines whose 0-based index is in hits, in line order.
MarkersAt(lines, hits) ==
    LET f[n \in 0..Len(lines)] ==
            IF n = 0 THEN <<>>
            ELSE IF (n - 1) \in hits THEN Append(f[n-1], Marker(lines, n - 1))
            ELSE f[n-1]
    IN  f[Len(lines)]

detect_story_boundaries(c) ==
    LET lines == Split(c)
    IN  MarkersAt(lines, {i \in 0..(Len(lines) - 1) : IsStoryBoundary(lines, i)})

detect_section_patterns(c) ==
    LET lines == Split(c)
    IN  MarkersAt(lines, {i \in 0..(Len(lines) - 1) : IsSectionHeader(lines, i)})

----------------------------------------------------------------------------
(* extract_content_sections, create_book_metadata, convert_book_to_json.   *)

\* FullContentSection with end_line counted as content.count('\n')
FullContentSection_CountsNewlines(c) ==
    [type |-> "content",
     title |-> "Full Content",
     content |-> clean_text(c),
     start_line |-> 1,
     end_line |-> Len(Split(c)) - 1,
     word_count |-> WordCount(clean_text(c)),
     character_count |-> Len(clean_text(c))]

FullContentSection(c) ==
    [type |-> "content",
     title |-> "Full Content",
     content |-> clean_text(c),
     start_line |-> 1,
     end_line |-> Len(Split(c)),
     word_count |-> WordCount(clean_text(c)),
     character_count |-> Len(clean_text(c))]

\* StartLine taken from the heading line instead of start_content
StartLine_AtHeading(ms, i) == ms[i + 1].line - 1

\* start_line = story["start_content"] - 1
StartLine(ms, i) == ms[i + 1].start_content - 1

\* EndLine without the conversion to a 0-based index
EndLine_NextStart(lines, ms, i) ==
    IF i < Len(ms) - 1 THEN ms[i + 2].start_content ELSE Len(lines)

\* end_line: the start of the next section or the end of the file
EndLine(lines, ms, i) ==
    IF i < Len(ms) - 1 THEN ms[i + 2].start_content - 1 ELSE Len(lines)

\* cleaned_content of the i-th marker (0-based)
CleanedContent(lines, ms, i) ==
    clean_text(Join(Slice(lines, StartLine(ms, i), EndLine(lines, ms, i))))

\* TooShort with <= in place of <
TooShort_Inclusive(cleaned_content) == WordCount(cleaned_content) <= MinWords

\* if len(cleaned_content.split()) < 50: continue
TooShort(cleaned_content) == WordCount(cleaned_content) < MinWords

StorySection(lines, ms, i, cleaned_content) ==
    [type |-> "story",
     title |-> ms[i + 1].title,
     content |-> cleaned_content,
     start_line |-> StartLine(ms, i) + 1,
     end_line |-> EndLine(lines, ms, i),
     word_count |-> WordCount(cleaned_content),
     character_count |-> Len(cleaned_content)]

\* CountStories without the test of the type
CountStories_AllSections(secs) == Len(secs)

CountStories(secs) == Cardinality({k \in 1..Len(secs) : secs[k].type = "story"})

Sum(secs, field) ==
    LET f[k \in 0..Len(secs)] == IF k = 0 THEN 0 ELSE f[k-1] + secs[k][field]
    IN  f[Len(secs)]

create_book_metadata(secs) ==
    [total_sections |-> Len(secs),
     stories |-> CountStories(secs)]

Statistics(secs) ==
    [total_sections |-> Len(secs),
     stories |-> CountStories(secs),
     total_words |-> Sum(secs, "word_count"),
     total_characters |-> Sum(secs, "character_count")]

DetectStoryBoundaries ==
    /\ pc = "extract"
    /\ stories' = detect_story_boundaries(content)
    /\ policy' = "A"
    /\ pc' = IF stories' = <<>> THEN "sections" ELSE "loop"
    /\ UNCHANGED <<content, idx, sections, metadata, book_json>>
    /\ UNCHANGED <<cleanVars, mainVars, ingestVars>>

DetectSectionPatterns ==
    /\ pc = "sections"
    /\ stories' = detect_section_patterns(content)
    /\ policy' = "B"
    /\ pc' = IF stories' = <<>> THEN "full" ELSE "loop"
    /\ UNCHANGED <<content, idx, sections, metadata, book_json>>
    /\ UNCHANGED <<cleanVars, mainVars, ingestVars>>

FullContent ==
    /\ pc = "full"
    /\ sections' = <<FullContentSection(content)>>
    /\ pc' = "extracted"
    /\ UNCHANGED <<content, stories, policy, idx, metadata, book_json>>
    /\ UNCHANGED <<cleanVars, mainVars, ingestVars>>

ProcessSection ==
    /\ pc = "loop"
    /\ idx < Len(stories)
    /\ LET lines == Split(content)
           cleaned_content == CleanedContent(lines, stories, idx)
       IN  sections' = IF TooShort(cleaned_content) THEN sections
                       ELSE Append(sections,
                                   StorySection(lines, stories, idx, cleaned_content))
    /\ idx' = idx + 1
    /\ UNCHANGED <<pc, content, stories, policy, metadata, book_json>>
    /\ UNCHANGED <<cleanVars, mainVars, ingestVars>>

ReturnSections ==
    /\ pc = "loop"
    /\ idx = Len(stories)
    /\ pc' = "extracted"
    /\ UNCHANGED <<content, stories, policy, idx, sections, metadata, book_json>>
    /\ UNCHANGED <<cleanVars, mainVars, ingestVars>>

CreateBookMetadata ==
    /\ pc = "extracted"
    /\ metadata' = <<create_book_metadata(sections)>>
    /\ pc' = "metadata"
    /\ UNCHANGED <<content, stories, policy, idx, sections, book_json>>
    /\ UNCHANGED <<cleanVars, mainVars, ingestVars>>

BuildBookJson ==
    /\ pc = "metadata"
    /\ book_json' = <<[metadata |-> metadata[1],
                      sections |-> sections,
                      statistics |-> Statistics(sections)]>>
    /\ pc' = "assembled"
    /\ UNCHANGED <<content, stories, policy, idx, sections, metadata>>
    /\ UNCHANGED <<cleanVars, mainVars, ingestVars>>

NextConvert ==
    \/ DetectStoryBoundaries
    \/ DetectSectionPatterns
    \/ FullContent
    \/ ProcessSection
    \/ ReturnSections
    \/ CreateBookMetadata
    \/ BuildBookJson

----------------------------------------------------------------------------
(* Specification Spec: the conversion applied to every document made of at *)
(* most MaxRuns runs of lines.                                             *)

MaxRuns == 4
PadLen == 9

Words(n) == [k \in 1..(2 * n - 1) |-> IF k % 2 = 1 THEN "w" ELSE " "]
Repeat(l, n) == [k \in 1..n |-> l]

BlankLine == <<>>
SpaceLine == <<" ", "\t">>
CapsHeading == <<"C","H","A","P","T","E","R"," ","O","N","E">>
PartHeading == <<"P","a","r","t"," ","1">>
\* MinWords - 1 words and a marked span: "w w ... w ⟪w⟫"
MarkedBody == Words(MinWords - 1) \o <<" ", OpenMark, "w", CloseMark>>

Runs ==
    { <<BlankLine>>, <<SpaceLine>>, <<CapsHeading>>, <<PartHeading>>,
      <<Words(MinWords)>>, <<MarkedBody>>, Repeat(<<"w">>, PadLen) }

Flatten(rs) ==
    LET f[k \in 0..Len(rs)] == IF k = 0 THEN <<>> ELSE f[k-1] \o rs[k]
    IN  f[Len(rs)]

Documents == {Join(Flatten(rs)) : rs \in UNION {[1..k -> Runs] : k \in 0..MaxRuns}}

CleanIdle == text = <<>> /\ cleaned = <<>>

ConvertStart ==
    /\ stories = <<>>
    /\ policy = "none"
    /\ idx = 0
    /\ sections = <<>>
    /\ metadata = <<>>
    /\ book_json = <<>>

MainIdle ==
    /\ input_file = [exists |-> TRUE, utf8 |-> TRUE, data |-> <<>>]
    /\ output_file = "absent"
    /\ individual = FALSE
    /\ exc = "none"
    /\ raised_at = "none"
    /\ reported = "none"
    /\ section_files = 0

IngestIdle ==
    /\ all_chunks = <<>>
    /\ chunk_i = 0
    /\ attempts = <<>>
    /\ err = "none"
    /\ aborted = FALSE

Init ==
    /\ content \in Documents
    /\ pc = "extract"
    /\ ConvertStart
    /\ CleanIdle
    /\ MainIdle
    /\ IngestIdle

Next == NextConvert

Spec == Init /\ [][Next]_vars

----------------------------------------------------------------------------
(* Specification SpecClean: clean_text applied to every short string.      *)

MaxLen == 4
CleanAlphabet == {" ", "\n", "a", ".", "#", OpenMark, CloseMark}
Strings(A, n) == UNION {[1..k -> A] : k \in 0..n}

InitClean ==
    /\ text \in Strings(CleanAlphabet, MaxLen)
    /\ cleaned = <<>>
    /\ pc = "clean"
    /\ content = <<>>
    /\ ConvertStart
    /\ MainIdle
    /\ IngestIdle

CleanText ==
    /\ pc = "clean"
    /\ cleaned' = clean_text(text)
    /\ pc' = "cleaned"
    /\ UNCHANGED <<text, convertVars, mainVars, ingestVars>>

NextClean == CleanText

SpecClean == InitClean /\ [][NextClean]_vars

----------------------------------------------------------------------------
(* main and the file handling of convert_book_to_json (specification       *)
(* SpecMain).  The input file exists or not and holds valid UTF-8 or not;  *)
(* the output file is absent or left by a previous run.  A step may fail   *)
(* where the environment can make it fail.                                 *)

\* ReadInput with the output file opened for writing before the input is read
ReadInput_OpensOutputFirst ==
    /\ pc = "read"
    /\ output_file' = "empty"
    /\ IF ~input_file.exists
       THEN /\ exc' = "FileNotFoundError"
            /\ raised_at' = "read"
            /\ pc' = "except"
            /\ UNCHANGED content
       ELSE IF ~input_file.utf8
       THEN /\ pc' = "read_latin1"
            /\ UNCHANGED <<content, exc, raised_at>>
       ELSE /\ content' = input_file.data
            /\ pc' = "extract"
            /\ UNCHANGED <<exc, raised_at>>
    /\ UNCHANGED <<stories, policy, idx, sections, metadata, book_json>>
    /\ UNCHANGED <<input_file, individual, reported, section_files>>
    /\ UNCHANGED <<cleanVars, ingestVars>>

\* with open(input_file, 'r', encoding='utf-8') as f: content = f.read()
ReadInput ==
    /\ pc = "read"
    /\ IF ~input_file.exists
       THEN /\ exc' = "FileNotFoundError"
            /\ raised_at' = "read"
            /\ pc' = "except"
            /\ UNCHANGED content
       ELSE IF ~input_file.utf8
       THEN /\ pc' = "read_latin1"      \* except UnicodeDecodeError
            /\ UNCHANGED <<content, exc, raised_at>>
       ELSE /\ content' = input_file.data
            /\ pc' = "extract"
            /\ UNCHANGED <<exc, raised_at>>
    /\ UNCHANGED <<stories, policy, idx, sections, metadata, book_json>>
    /\ UNCHANGED <<input_file, output_file, individual, reported, section_files>>
    /\ UNCHANGED <<cleanVars, ingestVars>>

\* with open(input_file, 'r', encoding='latin-1') as f: content = f.read()
ReadLatin1 ==
    /\ pc = "read_latin1"
    /\ content' = input_file.data
    /\ pc' = "extract"
    /\ UNCHANGED <<stories, policy, idx, sections, metadata, book_json>>
    /\ UNCHANGED <<cleanVars, mainVars, ingestVars>>

\* The positions of convert_book_to_json before the output file is opened.
BeforeWrite ==
    {"read", "read_latin1", "extract", "sections", "full", "loop", "extracted",
     "metadata", "assembled"}

\* An exception raised by the step at pc: an input file that exists and
\* cannot be read, an error while analysing, an output path that cannot be
\* opened (open raises FileNotFoundError for a missing directory).
StepFails ==
    /\ pc \in BeforeWrite
    /\ pc \in {"read", "read_latin1"} => input_file.exists
    /\ exc' \in IF pc = "assembled" THEN {"FileNotFoundError", "Exception"}
                ELSE {"Exception"}
    /\ raised_at' = pc
    /\ pc' = "except"
    /\ UNCHANGED <<input_file, output_file, individual, reported, section_files>>
    /\ UNCHANGED <<cleanVars, convertVars, ingestVars>>

\* with open(output_file, 'w', encoding='utf-8') as f:
OpenOutput ==
    /\ pc = "assembled"
    /\ output_file' = "empty"
    /\ pc' = "dump"
    /\ UNCHANGED <<input_file, individual, exc, raised_at, reported, section_files>>
    /\ UNCHANGED <<cleanVars, convertVars, ingestVars>>

\* json.dump(book_json, f, indent=2, ensure_ascii=False)
DumpJson ==
    /\ pc = "dump"
    /\ \/ /\ output_file' = "complete"
          /\ pc' = "converted"
          /\ UNCHANGED <<exc, raised_at>>
       \/ /\ output_file' = "partial"
          /\ exc' = "Exception"
          /\ raised_at' = "dump"
          /\ pc' = "except"
    /\ UNCHANGED <<input_file, individual, reported, section_files>>
    /\ UNCHANGED <<cleanVars, convertVars, ingestVars>>

\* if args.individual: read the output file back and write one file per section
WriteSectionFiles ==
    /\ pc = "converted"
    /\ IF individual
       THEN section_files' = Len(book_json[1].sections)
       ELSE UNCHANGED section_files
    /\ pc' = "report"
    /\ UNCHANGED <<input_file, output_file, individual, exc, raised_at, reported>>
    /\ UNCHANGED <<cleanVars, convertVars, ingestVars>>

\* print("Conversion completed!") ...
ReportCompleted ==
    /\ pc = "report"
    /\ reported' = "completed"
    /\ pc' = "done"
    /\ UNCHANGED <<input_file, output_file, individual, exc, raised_at, section_files>>
    /\ UNCHANGED <<cleanVars, convertVars, ingestVars>>

\* except FileNotFoundError: print("Error: Could not find input file ...")
HandleFileNotFound ==
    /\ pc = "except"
    /\ exc = "FileNotFoundError"
    /\ reported' = "not_found"
    /\ exc' = "none"
    /\ pc' = "done"
    /\ UNCHANGED <<input_file, output_file, individual, raised_at, section_files>>
    /\ UNCHANGED <<cleanVars, convertVars, ingestVars>>

\* except Exception as e: print("Error during conversion: ...")
HandleException ==
    /\ pc = "except"
    /\ exc = "Exception"
    /\ reported' = "error"
    /\ exc' = "none"
    /\ pc' = "done"
    /\ UNCHANGED <<input_file, output_file, individual, raised_at, section_files>>
    /\ UNCHANGED <<cleanVars, convertVars, ingestVars>>

NextMain ==
    \/ ReadInput
    \/ ReadLatin1
    \/ StepFails
    \/ NextConvert
    \/ OpenOutput
    \/ DumpJson
    \/ WriteSectionFiles
    \/ ReportCompleted
    \/ HandleFileNotFound
    \/ HandleException

MainRuns == 2

MainDocuments ==
    {Join(Flatten(rs)) : rs \in UNION {[1..k -> Runs] : k \in 0..MainRuns}}

InitMain ==
    /\ pc = "read"
    /\ input_file \in
          {[exists |-> FALSE, utf8 |-> TRUE, data |-> <<>>]}
          \cup [exists : {TRUE}, utf8 : BOOLEAN, data : MainDocuments]
    /\ output_file \in {"absent", "previous"}
    /\ individual \in BOOLEAN
    /\ exc = "none"
    /\ raised_at = "none"
    /\ reported = "none"
    /\ section_files = 0
    /\ content = <<>>
    /\ ConvertStart
    /\ CleanIdle
    /\ IngestIdle

SpecMain == InitMain /\ [][NextMain]_vars

----------------------------------------------------------------------------
(* The chunk loop of script_construct.py (specification SpecIngest).       *)
(* rag.insert is the external library: a call returns, raises a rate-limit *)
(* error, or raises another error.                                         *)

InsertResults == {"ok", "rate limit", "error"}

\* for i, chunk in enumerate(all_chunks):
NextChunk ==
    /\ pc = "for"
    /\ pc' = IF chunk_i < Len(all_chunks) THEN "insert" ELSE "done"
    /\ UNCHANGED <<ingestVars, cleanVars, convertVars, mainVars>>

\* try: rag.insert([chunk])
Insert ==
    /\ pc = "insert"
    /\ \E r \in InsertResults :
          /\ attempts' = Append(attempts,
                                [chunk |-> all_chunks[chunk_i + 1], try |-> 1,
                                 result |-> r])
          /\ err' = r
          /\ pc' = IF r = "ok" THEN "wait" ELSE "except"
    /\ UNCHANGED <<all_chunks, chunk_i, aborted, cleanVars, convertVars, mainVars>>

\* except Exception as e: if "rate limit" in str(e).lower():
HandleInsertError ==
    /\ pc = "except"
    /\ pc' = IF err = "rate limit" THEN "backoff" ELSE "wait"
    /\ UNCHANGED <<ingestVars, cleanVars, convertVars, mainVars>>

\* time.sleep(15)
Backoff ==
    /\ pc = "backoff"
    /\ pc' = "retry"
    /\ UNCHANGED <<ingestVars, cleanVars, convertVars, mainVars>>

\* Retry without the break after a failed retry
Retry_NoBreak ==
    /\ pc = "retry"
    /\ \E r \in InsertResults :
          /\ attempts' = Append(attempts,
                                [chunk |-> all_chunks[chunk_i + 1], try |-> 2,
                                 result |-> r])
          /\ err' = r
          /\ pc' = "wait"
          /\ aborted' = FALSE
    /\ UNCHANGED <<all_chunks, chunk_i, cleanVars, convertVars, mainVars>>

\* try: rag.insert([chunk])  except Exception as retry_e: ... break
Retry ==
    /\ pc = "retry"
    /\ \E r \in InsertResults :
          /\ attempts' = Append(attempts,
                                [chunk |-> all_chunks[chunk_i + 1], try |-> 2,
                                 result |-> r])
          /\ err' = r
          /\ pc' = IF r = "ok" THEN "wait" ELSE "done"
          /\ aborted' = (r # "ok")
    /\ UNCHANGED <<all_chunks, chunk_i, cleanVars, convertVars, mainVars>>

\* if i + 1 < len(all_chunks): time.sleep(delay_between_chunks); next i
Wait ==
    /\ pc = "wait"
    /\ chunk_i' = chunk_i + 1
    /\ pc' = "for"
    /\ UNCHANGED <<all_chunks, attempts, err, aborted, cleanVars, convertVars,
                   mainVars>>

NextIngest ==
    \/ NextChunk
    \/ Insert
    \/ HandleInsertError
    \/ Backoff
    \/ Retry
    \/ Wait

MaxChunks == 3

InitIngest ==
    /\ pc = "for"
    /\ all_chunks \in {[k \in 1..n |-> k] : n \in 0..MaxChunks}
    /\ chunk_i = 0
    /\ attempts = <<>>
    /\ err = "none"
    /\ aborted = FALSE
    /\ content = <<>>
    /\ ConvertStart
    /\ CleanIdle
    /\ MainIdle

\* The script runs on: every call of time.sleep and of rag.insert returns or
\* raises.
SpecIngest == InitIngest /\ [][NextIngest]_vars /\ WF_vars(NextIngest)

----------------------------------------------------------------------------
(* Properties of the conversion (specification Spec).                      *)

NumLines(c) == 1 + Cardinality({i \in 1..Len(c) : c[i] = "\n"})

NonBlank(l) == \E i \in 1..Len(l) : l[i] \notin Space

\* The 1-based number of the first non-blank line after line k; the number of
\* lines plus one when there is none.
FirstNonBlankAfter(ls, k) ==
    IF \E j \in (k + 1)..Len(ls) : NonBlank(ls[j])
    THEN CHOOSE j \in (k + 1)..Len(ls) :
            NonBlank(ls[j]) /\ \A h \in (k + 1)..(j - 1) : ~NonBlank(ls[h])
    ELSE Len(ls) + 1

\* The normalized text of the lines a..b (1-based, inclusive).
RangeText(ls, a, b) ==
    clean_text(Join([k \in 1..(b - a + 1) |-> ls[a + k - 1]]))

\* The 1-based last line of the range of the m-th marker of ms.
RangeEnd(ls, ms, m) ==
    IF m < Len(ms) THEN ms[m + 1].start_content - 1 ELSE Len(ls)

RangeWords(ls, ms, m) ==
    WordCount(RangeText(ls, ms[m].start_content, RangeEnd(ls, ms, m)))

Returned == pc = "extracted"

Detected == pc = "loop" /\ idx = 0

\* C1: when neither detector returns a marker, the result is exactly one
\* segment of type "content" titled "Full Content", from line 1 to the last
\* line, holding clean_text of the whole text, whatever its word count.
C1_FullDocumentFallback ==
    (Returned /\ detect_story_boundaries(content) = <<>>
              /\ detect_section_patterns(content) = <<>>)
    => /\ Len(sections) = 1
       /\ sections[1].type = "content"
       /\ sections[1].title = "Full Content"
       /\ sections[1].start_line = 1
       /\ sections[1].end_line = NumLines(content)
       /\ sections[1].content = clean_text(content)

C1_Witness ==
    /\ Returned
    /\ policy = "B" /\ stories = <<>>
    /\ Len(sections) = 1
    /\ sections[1].type = "content"
    /\ sections[1].word_count < MinWords
    /\ sections[1].end_line > 1

\* C2: every "story" segment has at least 50 words; a marker's segment is in
\* the result iff the normalized text of its line range has at least 50
\* words; only the single "content" segment can have fewer.
C2_MinimumWords ==
    Returned =>
        LET ls == Split(content)
        IN  /\ \A k \in 1..Len(sections) :
                  /\ sections[k].type = "story"
                        => /\ sections[k].word_count >= 50
                           /\ WordCount(sections[k].content) >= 50
                  /\ sections[k].word_count < 50
                        => sections[k].type = "content" /\ Len(sections) = 1
            /\ \A m \in 1..Len(stories) :
                  (\E k \in 1..Len(sections) :
                        /\ sections[k].type = "story"
                        /\ sections[k].start_line = stories[m].start_content)
                  <=> RangeWords(ls, stories, m) >= 50

\* a range of exactly 49 words is left out, beside a segment that is kept
C2_Witness ==
    /\ Returned
    /\ Len(stories) = 2
    /\ Len(sections) = 1
    /\ sections[1].word_count > 50
    /\ RangeWords(Split(content), stories, 2) = 49

\* a range of exactly 50 words is kept
C2_WitnessExact ==
    /\ Returned
    /\ Len(stories) = 2
    /\ Len(sections) = 1
    /\ sections[1].word_count = 50

\* C3: segments are in document order with disjoint line ranges; segments of
\* consecutive markers are contiguous; the lines of a dropped range are in no
\* segment.
C3_OrderedDisjointRanges ==
    Returned =>
        LET ls == Split(content)
            SegmentOf(m) == {k \in 1..Len(sections) :
                                sections[k].start_line = stories[m].start_content}
        IN  /\ \A k \in 1..Len(sections) :
                  sections[k].start_line <= sections[k].end_line
            /\ \A j, k \in 1..Len(sections) :
                  j < k => sections[j].end_line < sections[k].start_line
            /\ \A m \in 1..(Len(stories) - 1) :
                  \A j \in SegmentOf(m), k \in SegmentOf(m + 1) :
                      k = j + 1 /\ sections[k].start_line = sections[j].end_line + 1
            /\ \A m \in 1..Len(stories) :
                  SegmentOf(m) = {} =>
                      \A k \in 1..Len(sections) :
                          \/ sections[k].end_line < stories[m].start_content
                          \/ sections[k].start_line > RangeEnd(ls, stories, m)

C3_Witness ==
    /\ Returned
    /\ Len(stories) = 2
    /\ Len(sections) = 2
    /\ sections[2].start_line = sections[1].end_line + 1
    /\ sections[1].start_line < sections[1].end_line

C3_WitnessGap ==
    /\ Returned
    /\ Len(stories) = 2
    /\ Len(sections) = 1
    /\ stories[1].start_content < stories[2].start_content
    /\ sections[1].start_line = stories[2].start_content

\* C4: the statistics and the metadata of the assembled document agree with
\* its sections: counts, number of stories, sums of words and characters.
C4_StatisticsAgree ==
    pc = "assembled" =>
        LET secs == book_json[1].sections
            total[k \in 0..Len(secs)] ==
                IF k = 0 THEN <<0, 0, 0>>
                ELSE <<total[k-1][1] + secs[k].word_count,
                       total[k-1][2] + secs[k].character_count,
                       total[k-1][3] + (IF secs[k].type = "story" THEN 1 ELSE 0)>>
        IN  /\ secs = sections
            /\ book_json[1].statistics.total_sections = Len(secs)
            /\ book_json[1].metadata.total_sections = Len(secs)
            /\ book_json[1].statistics.stories = total[Len(secs)][3]
            /\ book_json[1].metadata.stories = total[Len(secs)][3]
            /\ book_json[1].statistics.total_words = total[Len(secs)][1]
            /\ book_json[1].statistics.total_characters = total[Len(secs)][2]

C4_Witness ==
    /\ pc = "assembled"
    /\ Len(book_json[1].sections) = 2
    /\ book_json[1].statistics.stories = 2
    /\ book_json[1].statistics.total_words > 2 * MinWords
    /\ book_json[1].statistics.total_characters > book_json[1].statistics.total_words

C4_WitnessContent ==
    /\ pc = "assembled"
    /\ Len(book_json[1].sections) = 1
    /\ book_json[1].statistics.stories = 0
    /\ book_json[1].statistics.total_words > 0

\* C5: when the range of marker m1 has fewer than 50 words, no segment is
\* emitted for m1; the next marker m2 has a segment iff its own range has at
\* least 50 words, and that segment is titled m2.title and holds only the
\* text of the lines from m2's content-start line on.
C5_ShortFirstHeadingDropped ==
    Returned =>
        LET ls == Split(content)
        IN  \A m \in 1..(Len(stories) - 1) :
                RangeWords(ls, stories, m) < 50 =>
                    /\ ~\E k \in 1..Len(sections) :
                          sections[k].start_line = stories[m].start_content
                    /\ RangeWords(ls, stories, m + 1) >= 50 =>
                          \E k \in 1..Len(sections) :
                              /\ sections[k].title = stories[m + 1].title
                              /\ sections[k].start_line = stories[m + 1].start_content
                              /\ sections[k].content =
                                    RangeText(ls, stories[m + 1].start_content,
                                              RangeEnd(ls, stories, m + 1))
                              /\ \A j \in 1..Len(sections) :
                                    j # k => sections[j].start_line
                                                > RangeEnd(ls, stories, m + 1)
                                             \/ sections[j].end_line
                                                < stories[m].start_content

C5_Witness ==
    /\ Returned
    /\ Len(stories) = 2
    /\ stories[2].line = stories[1].line + 1
    /\ RangeWords(Split(content), stories, 1) < 50
    /\ Len(sections) = 1
    /\ sections[1].title = stories[2].title
    /\ sections[1].start_line = stories[2].start_content

\* C8: detect_story_boundaries returns a marker for a line iff the trimmed
\* line has at least 10 characters, matches a story pattern, and at least 10
\* lines lie after its content-start line.
C8_StoryBoundaryGuard ==
    (policy = "A" /\ idx = 0 /\ pc \in {"sections", "loop"}) =>
        LET ls == Split(content)
        IN  /\ \A k \in 1..Len(ls) :
                  (\E m \in 1..Len(stories) : stories[m].line = k)
                  <=> /\ Len(Strip(ls[k])) >= 10
                      /\ MatchesStoryIndicator(Strip(ls[k]))
                      /\ Len(ls) - FirstNonBlankAfter(ls, k) >= 10
            /\ \A m \in 1..Len(stories) :
                  /\ stories[m].line \in 1..Len(ls)
                  /\ Len(ls) - stories[m].start_content >= 10
            /\ \A m, n \in 1..Len(stories) :
                  stories[m].line = stories[n].line => m = n

\* a marker with exactly 10 lines after its content-start line
C8_Witness ==
    /\ policy = "A" /\ idx = 0 /\ pc = "loop"
    /\ \E m \in 1..Len(stories) :
          NumLines(content) - stories[m].start_content = 10

\* a matching heading with 9 lines after its content-start line is left out
C8_WitnessRejected ==
    /\ policy = "A" /\ idx = 0 /\ pc = "sections"
    /\ LET ls == Split(content)
       IN  \E k \in 1..Len(ls) :
              /\ Len(Strip(ls[k])) >= 10
              /\ MatchesStoryIndicator(Strip(ls[k]))
              /\ Len(ls) - FirstNonBlankAfter(ls, k) = 9

MarkersWellFormed(ls, ms) ==
    /\ \A m \in 1..Len(ms) :
          /\ ms[m].line \in 1..Len(ls)
          /\ ms[m].line < ms[m].start_content
          /\ ms[m].start_content <= Len(ls) + 1
          /\ \A k \in (ms[m].line + 1)..(ms[m].start_content - 1) : ~NonBlank(ls[k])
          /\ \/ ms[m].start_content = Len(ls) + 1
             \/ NonBlank(ls[ms[m].start_content])
    /\ \A m \in 1..(Len(ms) - 1) :
          ms[m].start_content < ms[m + 1].start_content

\* C9: for every marker of either detector, line < start_content <= N + 1,
\* the lines between the heading and start_content are blank, start_content
\* is N + 1 or a non-blank line, and successive start_content values
\* strictly increase.
C9_ContentStartLine ==
    Detected =>
        LET ls == Split(content)
        IN  /\ MarkersWellFormed(ls, stories)
            /\ policy = "A" =>
                  MarkersWellFormed(ls, detect_section_patterns(content))

C9_Witness ==
    /\ Detected
    /\ policy = "B"
    /\ Len(stories) >= 2
    /\ stories[1].start_content > stories[1].line + 1
    /\ stories[Len(stories)].start_content = NumLines(content) + 1

C9_WitnessStory ==
    /\ Detected
    /\ policy = "A"
    /\ stories[1].start_content > stories[1].line + 1

----------------------------------------------------------------------------
(* Properties of clean_text (SpecClean), of main (SpecMain) and of the     *)
(* chunk loop (SpecIngest).                                                *)

\* C6: the result of clean_text has no run of two or more whitespace
\* characters and no leading or trailing whitespace, also when marked spans
\* or characters outside the allowed set are removed; clean_text of the
\* empty string is the empty string.
C6_WhitespaceNormalized ==
    pc = "cleaned" =>
        /\ \A i \in 1..(Len(cleaned) - 1) :
              ~(cleaned[i] \in Space /\ cleaned[i + 1] \in Space)
        /\ cleaned # <<>> =>
              cleaned[1] \notin Space /\ cleaned[Len(cleaned)] \notin Space
        /\ text = <<>> => cleaned = <<>>

OutputUntouched == output_file \in {"absent", "previous"}

FailedBeforeWrite == raised_at \in BeforeWrite

\* C7: the output file is opened for writing only after the input was read
\* and the whole structured document was assembled; when the input file is
\* missing or a step before the write fails, the output file is neither
\* created nor modified, and main reports the error and returns without
\* raising.
C7_NoPartialOutput ==
    /\ [](/\ ~OutputUntouched =>
                /\ book_json # <<>>
                /\ book_json[1].sections = sections
                /\ content = input_file.data
                /\ ~FailedBeforeWrite
          /\ pc = "except" => exc \in {"FileNotFoundError", "Exception"}
          /\ pc = "done" =>
                /\ exc = "none"
                /\ raised_at # "none" => reported \in {"not_found", "error"}
                /\ ~input_file.exists =>
                      raised_at = "read" /\ reported = "not_found")
    /\ [][(pc \in BeforeWrite /\ pc' # "dump") \/ FailedBeforeWrite'
              => output_file' = output_file]_vars

C7_Witness ==
    /\ pc = "done"
    /\ ~input_file.exists
    /\ reported = "not_found"
    /\ output_file = "previous"

C7_WitnessLateFailure ==
    /\ pc = "done"
    /\ raised_at = "assembled"
    /\ book_json # <<>>
    /\ reported = "error"
    /\ output_file = "absent"

IngestSafety ==
    \A k \in 1..Len(attempts) :
        \* list order, no chunk left out before a later one is submitted
        /\ attempts[k].try = 1 =>
              attempts[k].chunk =
                  all_chunks[Cardinality({j \in 1..k : attempts[j].try = 1})]
        \* at most two attempts per chunk
        /\ Cardinality({j \in 1..Len(attempts) :
                            attempts[j].chunk = attempts[k].chunk}) <= 2
        \* a second attempt only right after a rate-limit failure of the first
        /\ attempts[k].try = 2 =>
              /\ k > 1
              /\ attempts[k - 1] = [chunk |-> attempts[k].chunk, try |-> 1,
                                    result |-> "rate limit"]
        \* a failed retry ends the loop
        /\ (attempts[k].try = 2 /\ attempts[k].result # "ok") =>
              k = Len(attempts) /\ pc = "done" /\ aborted

\* C10: chunks are submitted in list order, each at most twice, the second
\* time only after a rate-limit failure of the first; a failed retry aborts
\* the loop and no later chunk is submitted; the loop terminates.
C10_BoundedRetry == []IngestSafety /\ <>(pc = "done")

C10_Witness ==
    /\ pc = "done"
    /\ aborted
    /\ Len(attempts) >= 3
    /\ attempts[Len(attempts)].chunk < Len(all_chunks)

=============================================================================
